---------------------------- MODULE Spec2Model ----------------------------
(***************************************************************************)
(* A model of robot-parse: the two construction paths of the kinematic    *)
(* tree (parse_robot in lib.rs, Model::from_urdf_string in urdf.rs with   *)
(* the helpers of utils.rs and bfs.rs) and the joint-value interface of   *)
(* MultiBodyGraph (set_joint_value, move_joint).                          *)
(*                                                                         *)
(* Rigid transforms are modelled exactly on the subgroup of SE(3) whose   *)
(* rotations are products of quarter turns about the coordinate axes and  *)
(* whose translations are integer vectors.  Angles are counted in quarter *)
(* turns, so that every sine and cosine is -1, 0 or 1.                    *)
(***************************************************************************)
EXTENDS Integers, Sequences, FiniteSets, TLC

VARIABLES robot, multi_body, model, last

vars == <<robot, multi_body, model, last>>

\* Option<T>: None is the empty sequence, Some(x) the sequence of x alone.
None == <<>>

Some(x) == <<x>>

Unwrap(o) == o[1]

-----------------------------------------------------------------------------
(* Bounds of the model.                                                    *)

\* Links of a description in the joint-value specification.
MaxLinks == 3

\* Links and joints of a description in the construction specification.
BuildLinks == 4

BuildJoints == 3

\* Joint values a caller supplies, in quarter turns (revolute) or unit
\* lengths (prismatic).
JointValues == {0, 1}

-----------------------------------------------------------------------------
(* liealg: vectors, rotations, SE(3) and se(3).                            *)

Vec3Zero == <<0, 0, 0>>

VAdd(a, b) == <<a[1] + b[1], a[2] + b[2], a[3] + b[3]>>

VScale(a, k) == <<a[1] * k, a[2] * k, a[3] * k>>

Cross(a, b) ==
    << a[2] * b[3] - a[3] * b[2],
       a[3] * b[1] - a[1] * b[3],
       a[1] * b[2] - a[2] * b[1] >>

Mat3Identity == << <<1, 0, 0>>, <<0, 1, 0>>, <<0, 0, 1>> >>

Dot(a, b) == a[1] * b[1] + a[2] * b[2] + a[3] * b[3]

Col(m, j) == <<m[1][j], m[2][j], m[3][j]>>

MatVec(m, v) == <<Dot(m[1], v), Dot(m[2], v), Dot(m[3], v)>>

MatMul(a, b) ==
    << <<Dot(a[1], Col(b, 1)), Dot(a[1], Col(b, 2)), Dot(a[1], Col(b, 3))>>,
       <<Dot(a[2], Col(b, 1)), Dot(a[2], Col(b, 2)), Dot(a[2], Col(b, 3))>>,
       <<Dot(a[3], Col(b, 1)), Dot(a[3], Col(b, 2)), Dot(a[3], Col(b, 3))>> >>

Abs(x) == IF x < 0 THEN -x ELSE x

\* cos and sin of k quarter turns.
QuarterCos(k) == CASE k % 4 = 0 -> 1 [] k % 4 = 2 -> -1 [] OTHER -> 0

QuarterSin(k) == CASE k % 4 = 1 -> 1 [] k % 4 = 3 -> -1 [] OTHER -> 0

\* Rotation by k quarter turns about the unit coordinate axis u
\* (Rodrigues: R = cos I + sin [u]x + (1 - cos) u u^T).
AxisAngle(u, k) ==
    LET c == QuarterCos(k)
        s == QuarterSin(k)
        K == << <<0, -u[3], u[2]>>, <<u[3], 0, -u[1]>>, <<-u[2], u[1], 0>> >>
        E(i, j) == c * Mat3Identity[i][j] + s * K[i][j] + (1 - c) * u[i] * u[j]
    IN  << <<E(1, 1), E(1, 2), E(1, 3)>>,
           <<E(2, 1), E(2, 2), E(2, 3)>>,
           <<E(3, 1), E(3, 2), E(3, 3)>> >>

\* SO3::from_euler_angles(roll, pitch, yaw) = Rz(yaw) Ry(pitch) Rx(roll).
FromEulerAngles(roll, pitch, yaw) ==
    MatMul(AxisAngle(<<0, 0, 1>>, yaw),
           MatMul(AxisAngle(<<0, 1, 0>>, pitch), AxisAngle(<<1, 0, 0>>, roll)))

\* SE3::new(rotation, translation).
SE3New(R, p) == [R |-> R, p |-> p]

\* A variant of SE3::identity() that is one unit off along x.
SE3Shifted == SE3New(Mat3Identity, <<1, 0, 0>>)

SE3Identity == SE3New(Mat3Identity, Vec3Zero)

\* Group composition a * b.
SE3Mul(a, b) == SE3New(MatMul(a.R, b.R), VAdd(a.p, MatVec(a.R, b.p)))

\* se3::new(angular, linear).
se3New(w, v) == [w |-> w, v |-> v]

se3Identity == se3New(Vec3Zero, Vec3Zero)

\* screw * joint_value.
se3Scale(s, k) == se3New(VScale(s.w, k), VScale(s.v, k))

\* The exponential map on the screws the joint kinds produce: a pure
\* translation, or a pure rotation about a coordinate axis.
se3Exp(s) ==
    IF s.w = Vec3Zero
    THEN SE3New(Mat3Identity, s.v)
    ELSE LET theta == Abs(s.w[1]) + Abs(s.w[2]) + Abs(s.w[3])
             u == <<s.w[1] \div theta, s.w[2] \div theta, s.w[3] \div theta>>
         IN  SE3New(AxisAngle(u, theta), Vec3Zero)

\* global_pose.adjoint().act(&twist): [R w ; p x (R w) + R v].
AdjointAct(T, s) ==
    LET Rw == MatVec(T.R, s.w)
    IN  se3New(Rw, VAdd(Cross(T.p, Rw), MatVec(T.R, s.v)))

-----------------------------------------------------------------------------
(* urdf_rs: the parsed description.  A link is its name; a joint is        *)
(* [name, joint_type, axis, origin, parent, child].  Link names are the    *)
(* numbers 1..n in the order of the description, so the link named i has   *)
(* id i - 1; joint names are the positions in the joint list.  Names are   *)
(* distinct.                                                               *)

JointTypes == {"Revolute", "Continuous", "Prismatic", "Fixed", "Floating"}

\* The axis and origin a joint of each kind carries in the descriptions
\* explored: raw (not normalised) axes, origins that do not commute.
KindAxis(kind) ==
    CASE kind = "Revolute"   -> <<0, 0, 2>>
      [] kind = "Continuous" -> <<0, -1, 0>>
      [] kind = "Prismatic"  -> <<2, 0, 0>>
      [] OTHER               -> <<1, 0, 0>>

KindOrigin(kind) ==
    CASE kind = "Revolute"   -> [xyz |-> <<1, 0, 0>>, rpy |-> <<0, 0, 1>>]
      [] kind = "Continuous" -> [xyz |-> <<0, 1, 0>>, rpy |-> <<0, 0, 0>>]
      [] kind = "Prismatic"  -> [xyz |-> <<0, 0, 1>>, rpy |-> <<1, 0, 0>>]
      [] kind = "Fixed"      -> [xyz |-> <<1, 0, 0>>, rpy |-> <<0, 1, 0>>]
      [] OTHER               -> [xyz |-> <<0, 2, 0>>, rpy |-> <<0, 0, 3>>]

MkJoint(name, kind, parent, child) ==
    [name |-> name, joint_type |-> kind, axis |-> KindAxis(kind),
     origin |-> KindOrigin(kind), parent |-> parent, child |-> child]

Min(S) == CHOOSE x \in S : \A y \in S : x <= y

\* iter().find(pred): the first element of a sequence in a set of positions.
FindFirst(seq, positions) ==
    IF positions = {} THEN None ELSE Some(seq[Min(positions)])

\* The descriptions of the joint-value specification: every link is the
\* child of at most one joint, whose parent is any other link, so chains,
\* branching trees, forests, cycles and rootless descriptions all occur.
\* The joints into the odd links are of one kind, those into the even
\* links of the same kind or of the next one.
LinkParents(n) == [1..n -> {None} \cup {Some(p) : p \in 1..n}]

KindPairs ==
    {<<k, k>> : k \in JointTypes}
        \cup { <<"Revolute", "Prismatic">>, <<"Prismatic", "Fixed">>,
               <<"Fixed", "Continuous">>, <<"Continuous", "Floating">>,
               <<"Floating", "Revolute">> }

RECURSIVE JointsOf(_, _, _, _)
JointsOf(parents, kinds, i, acc) ==
    IF i > Len(parents) THEN acc
    ELSE IF parents[i] = None THEN JointsOf(parents, kinds, i + 1, acc)
    ELSE JointsOf(parents, kinds, i + 1,
                  Append(acc, MkJoint(Len(acc) + 1, kinds[2 - (i % 2)],
                                      Unwrap(parents[i]), i)))

TreeRobot(n, parents, kinds) ==
    [links |-> [i \in 1..n |-> i], joints |-> JointsOf(parents, kinds, 1, <<>>)]

\* The descriptions of the construction specification: any list of joints
\* between any names, known or not (name n + 1 is no link), so that
\* unknown parents and children, doubly claimed children and self loops
\* occur too.  The kind of a joint follows its position in the list.
BuildKind(k) ==
    CASE k % 3 = 1 -> "Revolute" [] k % 3 = 2 -> "Prismatic" [] OTHER -> "Fixed"

BuildRobot(n, e) ==
    [links |-> [i \in 1..n |-> i],
     joints |-> [k \in 1..Len(e) |-> MkJoint(k, BuildKind(k), e[k][1], e[k][2])]]

LinkNames(r) == {r.links[i] : i \in 1..Len(r.links)}

-----------------------------------------------------------------------------
(* petgraph: DiGraphMap and its breadth-first traversal.  A graph is its   *)
(* node set and its edges in insertion order.                              *)

Range(seq) == {seq[i] : i \in 1..Len(seq)}

AddEdge(g, a, b) ==
    [nodes |-> g.nodes \cup {a, b},
     edges |-> IF <<a, b>> \in Range(g.edges) THEN g.edges ELSE Append(g.edges, <<a, b>>)]

\* neighbors_directed(index, Incoming).next()
GraphParent(g, index) ==
    LET inc == {k \in 1..Len(g.edges) : g.edges[k][2] = index}
    IN  IF inc = {} THEN None ELSE Some(g.edges[Min(inc)][1])

\* neighbors_directed(index, Outgoing), in insertion order.
RECURSIVE OutNeighbors(_, _, _)
OutNeighbors(g, index, k) ==
    IF k > Len(g.edges) THEN <<>>
    ELSE IF g.edges[k][1] = index
         THEN <<g.edges[k][2]>> \o OutNeighbors(g, index, k + 1)
         ELSE OutNeighbors(g, index, k + 1)

\* Bfs::next, repeated until the queue is empty: pop the front node, push
\* each successor not yet discovered, yield the node.
RECURSIVE Discover(_, _, _)
Discover(succ, stack, discovered) ==
    IF succ = <<>> THEN [stack |-> stack, discovered |-> discovered]
    ELSE IF Head(succ) \in discovered
         THEN Discover(Tail(succ), stack, discovered)
         ELSE Discover(Tail(succ), Append(stack, Head(succ)), discovered \cup {Head(succ)})

RECURSIVE BfsCollect(_, _, _)
BfsCollect(g, stack, discovered) ==
    IF stack = <<>> THEN <<>>
    ELSE LET node == Head(stack)
             d == Discover(OutNeighbors(g, node, 1), Tail(stack), discovered)
         IN  <<node>> \o BfsCollect(g, d.stack, d.discovered)

\* Bfs::new(graph, start) collected into a vector.
bfs(g, start) == BfsCollect(g, <<start>>, {start})

-----------------------------------------------------------------------------
(* lib.rs: MultiBodyGraph.                                                 *)

\* A panic unwinds out of the call with its message.
Panic(msg) == [panic |-> msg]

IsPanic(x) == "panic" \in DOMAIN x

\* A call that returns normally, with its value.
Ok(v) == [ok |-> v]

UnwrapNone == "called Option::unwrap on a None value"

Max(S) == CHOOSE x \in S : \A y \in S : y <= x

\* sqrt of the squared norm of an axis along a coordinate direction.
Sqrt(sq) == CHOOSE r \in 0..sq : r * r = sq

\* axis / |axis|, as joint_screw and joint_twist compute it.
Normalize(axis) ==
    LET norm == Sqrt(axis[1] * axis[1] + axis[2] * axis[2] + axis[3] * axis[3])
    IN  <<axis[1] \div norm, axis[2] \div norm, axis[3] \div norm>>

joint_screw(joint) ==
    IF joint.joint_type \in {"Revolute", "Continuous"}
    THEN Some(se3New(Normalize(joint.axis), Vec3Zero))
    ELSE None

origin_to_se3(origin) ==
    SE3New(FromEulerAngles(origin.rpy[1], origin.rpy[2], origin.rpy[3]), origin.xyz)

joint_relative_pose(joint) == origin_to_se3(joint.origin)

\* A variant of relative_pose that leaves the joint value out.
relative_pose_zero(joint, joint_value) == joint_relative_pose(joint)

relative_pose(joint, joint_value) ==
    LET pose == joint_relative_pose(joint)
        screw == joint_screw(joint)
    IN  IF screw # None
        THEN SE3Mul(pose, se3Exp(se3Scale(Unwrap(screw), joint_value)))
        ELSE pose

RECURSIVE Reverse(_)
Reverse(seq) == IF seq = <<>> THEN <<>> ELSE Append(Reverse(Tail(seq)), Head(seq))

\* A variant of MultiBodyGraph::bfs that yields children before parents.
MultiBodyGraph_bfs_reversed(mb, start) == Reverse(bfs(mb.graph, start))

\* MultiBodyGraph::bfs
MultiBodyGraph_bfs(mb, start) == bfs(mb.graph, start)

\* MultiBodyGraph::parent
MultiBodyGraph_parent(mb, index) == GraphParent(mb.graph, index)

\* MultiBodyGraph::children
MultiBodyGraph_children(mb, index) == OutNeighbors(mb.graph, index, 1)

\* The loop of move_joint over the traversal order.
RECURSIVE MoveLinks(_, _, _)
MoveLinks(mb, link_map, order) ==
    IF order = <<>> THEN link_map
    ELSE LET link == Head(order)
             parent == MultiBodyGraph_parent(mb, link)
         IN  IF parent # None
             THEN LET parent_global_pose == link_map[Unwrap(parent)].global_pose
                      joint_value == link_map[link].joint_value
                      rel == relative_pose(Unwrap(link_map[link].joint), joint_value)
                  IN  MoveLinks(mb,
                                [link_map EXCEPT ![link].global_pose =
                                                     SE3Mul(parent_global_pose, rel)],
                                Tail(order))
             ELSE MoveLinks(mb, link_map, Tail(order))

\* A variant of move_joint that composes the relative pose of a link onto
\* the global pose the link already has instead of onto its parent's.
move_joint_onto(mb) ==
    [mb EXCEPT !.link_map =
        [l \in DOMAIN mb.link_map |->
            IF MultiBodyGraph_parent(mb, l) # None
            THEN [mb.link_map[l] EXCEPT !.global_pose =
                     SE3Mul(mb.link_map[l].global_pose,
                            relative_pose(Unwrap(mb.link_map[l].joint),
                                          mb.link_map[l].joint_value))]
            ELSE mb.link_map[l]]]

move_joint(mb) ==
    [mb EXCEPT !.link_map = MoveLinks(mb, mb.link_map, MultiBodyGraph_bfs(mb, mb.root_index))]

\* The links of link_map that carry a joint of the given name.
LinksOfJoint(link_map, name) ==
    {i \in DOMAIN link_map :
        link_map[i].joint # None /\ Unwrap(link_map[i].joint).name = name}

\* The loop of set_joint_value over the entries <<name, value>> of the
\* mapping, in the order the HashMap yields them; joint names are unique
\* in the descriptions explored, so find() has one candidate at most.
RECURSIVE SetValues(_, _)
SetValues(link_map, entries) ==
    IF entries = <<>> THEN [link_map |-> link_map, result |-> "ok"]
    ELSE LET found == LinksOfJoint(link_map, Head(entries)[1])
         IN  IF found = {}
             THEN [link_map |-> link_map, result |-> "panic"]
             ELSE SetValues([link_map EXCEPT ![Min(found)].joint_value = Head(entries)[2]],
                            Tail(entries))

set_joint_value(mb, entries) ==
    LET r == SetValues(mb.link_map, entries)
    IN  [value |-> [mb EXCEPT !.link_map = r.link_map], result |-> r.result]

link_name_index_map(r) ==
    [name \in LinkNames(r) |-> Max({i \in 1..Len(r.links) : r.links[i] = name}) - 1]

\* (joint, link) for each link: the first joint whose child is the link.
joint_links(r) ==
    [i \in 1..Len(r.links) |->
        [joint |-> FindFirst(r.joints,
                             {k \in 1..Len(r.joints) : r.joints[k].child = r.links[i]}),
         link |-> r.links[i]]]

\* The edges of parse_robot, one per link that has a joint; the parent
\* name is looked up with unwrap().
RECURSIVE JointEdges(_, _, _, _)
JointEdges(jl, index_map, i, g) ==
    IF i > Len(jl) THEN g
    ELSE IF jl[i].joint = None THEN JointEdges(jl, index_map, i + 1, g)
    ELSE LET joint == Unwrap(jl[i].joint)
         IN  IF joint.parent \notin DOMAIN index_map
             THEN Panic(UnwrapNone)
             ELSE JointEdges(jl, index_map, i + 1,
                             AddEdge(g, index_map[joint.parent], index_map[joint.child]))

RECURSIVE SeqOfSet(_, _)
SeqOfSet(positions, upto) ==
    IF upto = 0 THEN <<>>
    ELSE IF upto \in positions
         THEN Append(SeqOfSet(positions, upto - 1), upto)
         ELSE SeqOfSet(positions, upto - 1)

parse_robot(r) ==
    LET index_map == link_name_index_map(r)
        jl == joint_links(r)
        rootless == {i \in 1..Len(jl) : jl[i].joint = None}
        leafs == SeqOfSet({i \in 1..Len(jl) :
                              \A k \in 1..Len(r.joints) : r.joints[k].parent # jl[i].link},
                          Len(jl))
        nodes == [nodes |-> {index_map[name] : name \in DOMAIN index_map}, edges |-> <<>>]
        g == JointEdges(jl, index_map, 1, nodes)
    IN  IF rootless = {} THEN Panic("no root link")
        ELSE IF IsPanic(g) THEN g
        ELSE move_joint(
               [graph |-> g,
                link_map |->
                    [id \in {index_map[jl[i].link] : i \in 1..Len(jl)} |->
                        LET i == CHOOSE k \in 1..Len(jl) : index_map[jl[k].link] = id
                            j == jl[i].joint
                        IN  [joint_value |-> 0,
                             joint_screw |-> IF j = None THEN None ELSE joint_screw(Unwrap(j)),
                             joint_relative_pose |->
                                 IF j = None THEN SE3Identity
                                 ELSE joint_relative_pose(Unwrap(j)),
                             global_pose |-> SE3Identity,
                             urdf_link |-> jl[i].link,
                             joint |-> j]],
                root_index |-> index_map[jl[Min(rootless)].link],
                leafs_index |-> [k \in 1..Len(leafs) |-> index_map[jl[leafs[k]].link]]])

-----------------------------------------------------------------------------
(* utils.rs, bfs.rs, urdf.rs: Model.                                       *)

\* The key of a link in temp_link_map: the parent name of the first joint
\* whose child is the link.
TempKey(r, i) ==
    LET j == FindFirst(r.joints, {k \in 1..Len(r.joints) : r.joints[k].child = r.links[i]})
    IN  IF j = None THEN None ELSE Some(Unwrap(j).parent)

\* parent_link_name -> (link_id, joint, link), collected into a HashMap:
\* of the links that share a key, the last one inserted stays.
temp_link_map(r) ==
    [key \in {TempKey(r, i) : i \in 1..Len(r.links)} |->
        LET i == Max({k \in 1..Len(r.links) : TempKey(r, k) = key})
        IN  [index |-> i - 1,
             joint |-> FindFirst(r.joints,
                                 {k \in 1..Len(r.joints) : r.joints[k].child = r.links[i]}),
             link |-> r.links[i]]]

\* The entries of temp_map in ascending link id.  The HashMap yields them
\* in any order; every node gets one outgoing and one incoming edge at
\* most, so the order changes neither the traversal nor a parent.
RECURSIVE TempEntries(_, _)
TempEntries(temp_map, keys) ==
    IF keys = {} THEN <<>>
    ELSE LET k == CHOOSE x \in keys :
                    \A y \in keys : temp_map[x].index <= temp_map[y].index
         IN  <<temp_map[k]>> \o TempEntries(temp_map, keys \ {k})

RECURSIVE TempEdges(_, _, _)
TempEdges(temp_map, entries, g) ==
    IF entries = <<>> THEN g
    ELSE LET e == Head(entries)
         IN  IF Some(e.link) \in DOMAIN temp_map
             THEN TempEdges(temp_map, Tail(entries),
                            AddEdge(g, e.index, temp_map[Some(e.link)].index))
             ELSE TempEdges(temp_map, Tail(entries), g)

construct_link_graph(temp_map) ==
    TempEdges(temp_map, TempEntries(temp_map, DOMAIN temp_map),
              [nodes |-> {temp_map[k].index : k \in DOMAIN temp_map}, edges |-> <<>>])

\* link_id -> Link, poses and screws still at the identity.  The spatial
\* inertia of a link is a function of its inertial block alone and is left
\* out with it.
construct_link_map(temp_map) ==
    [i \in {temp_map[k].index : k \in DOMAIN temp_map} |->
        LET k == CHOOSE x \in DOMAIN temp_map : temp_map[x].index = i
        IN  [space_spatial_screw |-> se3Identity,
             local_spatial_screw |-> se3Identity,
             global_zero_pose |-> SE3Identity,
             parent_zero_pose |-> SE3Identity,
             joint |-> [urdf_joint |-> temp_map[k].joint]]]

pose_to_se3(pose) ==
    SE3New(FromEulerAngles(pose.rpy[1], pose.rpy[2], pose.rpy[3]), pose.xyz)

joint_twist(joint) ==
    CASE joint.joint_type \in {"Revolute", "Continuous"} ->
            se3New(Normalize(joint.axis), Vec3Zero)
      [] joint.joint_type = "Prismatic" -> se3New(Vec3Zero, Normalize(joint.axis))
      [] joint.joint_type = "Fixed" -> se3Identity
      [] OTHER -> Panic("joint type not supported")

RECURSIVE fullfill_link_map(_, _, _)
fullfill_link_map(link_map, g, order) ==
    IF order = <<>> THEN Ok(link_map)
    ELSE LET link == Head(order)
             parent_index == GraphParent(g, link)
         IN  IF parent_index = None THEN fullfill_link_map(link_map, g, Tail(order))
             ELSE LET parent_global_pose == link_map[Unwrap(parent_index)].global_zero_pose
                      joint == Unwrap(link_map[link].joint.urdf_joint)
                      rel == pose_to_se3(joint.origin)
                      twist == joint_twist(joint)
                      global_pose == SE3Mul(parent_global_pose, rel)
                  IN  IF IsPanic(twist) THEN twist
                      ELSE fullfill_link_map(
                             [link_map EXCEPT ![link] =
                                 [@ EXCEPT !.parent_zero_pose = rel,
                                           !.global_zero_pose = global_pose,
                                           !.local_spatial_screw = twist,
                                           !.space_spatial_screw =
                                               AdjointAct(global_pose, twist)]],
                             g, Tail(order))

\* The links of link_map sorted by id, the ids dropped.
RECURSIVE SortedLinks(_, _)
SortedLinks(link_map, ids) ==
    IF ids = {} THEN <<>>
    ELSE <<link_map[Min(ids)]>> \o SortedLinks(link_map, ids \ {Min(ids)})

from_urdf_string(r) ==
    LET temp_map == temp_link_map(r)
        start == IF None \in DOMAIN temp_map THEN temp_map[None].index ELSE 0
        link_graph == construct_link_graph(temp_map)
        order == bfs(link_graph, start)
        filled == fullfill_link_map(construct_link_map(temp_map), link_graph, order)
    IN  IF IsPanic(filled) THEN filled
        ELSE [links |-> SortedLinks(filled.ok, DOMAIN filled.ok),
              link_graph |-> link_graph,
              bfs |-> order]

-----------------------------------------------------------------------------
(* The program: one construction call, then calls on the MultiBodyGraph.   *)

Call(op, result, unknown) == [op |-> op, result |-> result, unknown |-> unknown]

\* The mappings a caller passes to set_joint_value, as the entries in the
\* order the HashMap yields them: none, one or two distinct joint names, of
\* which those beyond the joints of the tree are unknown.
Mappings ==
    { e \in UNION { [1..k -> (1..MaxLinks) \X JointValues] : k \in 0..2 } :
        \A a, b \in 1..Len(e) : a # b => e[a][1] # e[b][1] }

HasUnknownName(mb, e) ==
    \E a \in 1..Len(e) : LinksOfJoint(mb.link_map, e[a][1]) = {}

Init ==
    /\ \E n \in 1..MaxLinks :
         \E parents \in LinkParents(n), kinds \in KindPairs :
            /\ \A i \in 1..n : parents[i] # Some(i)
            /\ robot = TreeRobot(n, parents, kinds)
    /\ multi_body = None
    /\ model = None
    /\ last = Call("init", "ok", FALSE)

InitBuild ==
    /\ \E n \in 1..BuildLinks :
         \E m \in 0..BuildJoints :
            \E e \in [1..m -> (1..(n + 1)) \X (1..(n + 1))] :
               robot = BuildRobot(n, e)
    /\ multi_body = None
    /\ model = None
    /\ last = Call("init", "ok", FALSE)

ParseRobot ==
    /\ last.op = "init"
    /\ LET r == parse_robot(robot)
       IN  IF IsPanic(r)
           THEN /\ multi_body' = None
                /\ last' = Call("parse_robot", "panic", FALSE)
           ELSE /\ multi_body' = Some(r)
                /\ last' = Call("parse_robot", "ok", FALSE)
    /\ UNCHANGED <<robot, model>>

FromUrdfString ==
    /\ last.op = "init"
    /\ LET r == from_urdf_string(robot)
       IN  IF IsPanic(r)
           THEN /\ model' = None
                /\ last' = Call("from_urdf_string", "panic", FALSE)
           ELSE /\ model' = Some(r)
                /\ last' = Call("from_urdf_string", "ok", FALSE)
    /\ UNCHANGED <<robot, multi_body>>

SetJointValue ==
    /\ multi_body # None
    /\ last.result = "ok"
    /\ \E e \in Mappings :
         LET r == set_joint_value(Unwrap(multi_body), e)
         IN  /\ multi_body' = Some(r.value)
             /\ last' = Call("set_joint_value", r.result,
                             HasUnknownName(Unwrap(multi_body), e))
    /\ UNCHANGED <<robot, model>>

MoveJoint ==
    /\ multi_body # None
    /\ last.result = "ok"
    /\ multi_body' = Some(move_joint(Unwrap(multi_body)))
    /\ last' = Call("move_joint", "ok", FALSE)
    /\ UNCHANGED <<robot, model>>

Next == ParseRobot \/ FromUrdfString \/ SetJointValue \/ MoveJoint

Spec == Init /\ [][Next]_vars

NextBuild == ParseRobot \/ FromUrdfString

SpecBuild == InitBuild /\ [][NextBuild]_vars

-----------------------------------------------------------------------------
(* What the description says, for the statements below.                    *)

\* The links that are no joint's child.
Parentless(r) ==
    {i \in 1..Len(r.links) : \A k \in 1..Len(r.joints) : r.joints[k].child # r.links[i]}

\* The link names reached from a set of names along the joints.
RECURSIVE ReachNames(_, _)
ReachNames(r, S) ==
    LET T == S \cup {r.joints[k].child : k \in {x \in 1..Len(r.joints) : r.joints[x].parent \in S}}
    IN  IF T = S THEN S ELSE ReachNames(r, T)

\* Every joint connects two links of the description.
KnownLinks(r) ==
    \A k \in 1..Len(r.joints) :
        r.joints[k].parent \in LinkNames(r) /\ r.joints[k].child \in LinkNames(r)

\* No link is the child of two joints.
OneParentEach(r) ==
    \A a, b \in 1..Len(r.joints) : a # b => r.joints[a].child # r.joints[b].child

\* A valid description: a single-rooted tree over all its links.
IsTree(r) ==
    /\ KnownLinks(r)
    /\ OneParentEach(r)
    /\ Cardinality(Parentless(r)) = 1
    /\ ReachNames(r, {r.links[i] : i \in Parentless(r)}) = LinkNames(r)

\* The id of a link name: its position in the description, from 0.
IdOf(r, name) == (CHOOSE i \in 1..Len(r.links) : r.links[i] = name) - 1

AllIds(r) == 0..(Len(r.links) - 1)

Built == last.op \in {"parse_robot", "from_urdf_string"}

Position(order, x) == Min({k \in 1..Len(order) : order[k] = x})

\* An order that starts at the root, holds every link id once and puts
\* the parent of every edge before the child.
OrderOK(order, g, r) ==
    /\ Len(order) = Len(r.links)
    /\ Range(order) = AllIds(r)
    /\ order[1] = IdOf(r, r.links[Min(Parentless(r))])
    /\ \A k \in 1..Len(g.edges) :
          Position(order, g.edges[k][1]) < Position(order, g.edges[k][2])

\* C1: after a successful build of a valid description, in both paths, the
\* traversal order starts at the root, contains every link id exactly once
\* and has every parent before its child.
C1_TraversalOrder ==
    IsTree(robot) =>
        /\ model # None =>
              OrderOK(Unwrap(model).bfs, Unwrap(model).link_graph, robot)
        /\ multi_body # None =>
              OrderOK(MultiBodyGraph_bfs(Unwrap(multi_body), Unwrap(multi_body).root_index),
                      Unwrap(multi_body).graph, robot)

\* One node per link and one parent -> child edge per joint.
GraphOfDescription(g, r) ==
    /\ g.nodes = AllIds(r)
    /\ Len(g.edges) = Len(r.joints)
    /\ Range(g.edges) =
          {<<IdOf(r, r.joints[k].parent), IdOf(r, r.joints[k].child)>> : k \in 1..Len(r.joints)}

\* C3: for every valid description, branching ones included, the graph
\* Model::from_urdf_string builds has exactly one node per link and exactly
\* one parent -> child edge per joint.
C3_ModelGraph ==
    (IsTree(robot) /\ model # None) => GraphOfDescription(Unwrap(model).link_graph, robot)

Incoming(g, node) == {k \in 1..Len(g.edges) : g.edges[k][2] = node}

\* One node without incoming edge, which is the parentless link of the
\* description and the given root; one incoming edge into every other.
SingleRoot(g, root, r) ==
    /\ {x \in g.nodes : Incoming(g, x) = {}} = {root}
    /\ root = IdOf(r, r.links[Min(Parentless(r))])
    /\ \A x \in g.nodes \ {root} : Cardinality(Incoming(g, x)) = 1

\* C4: for every valid description the built graph has exactly one node
\* with no incoming edge, the link that is no joint's child, used as root
\* and start of the traversal; every other node has one incoming edge.
C4_SingleRoot ==
    IsTree(robot) =>
        /\ model # None =>
              SingleRoot(Unwrap(model).link_graph, Unwrap(model).bfs[1], robot)
        /\ multi_body # None =>
              SingleRoot(Unwrap(multi_body).graph, Unwrap(multi_body).root_index, robot)

\* C7: a description with no parentless link, or with more than one,
\* returns no tree from either build path.
C7_RootRejected ==
    (Built /\ Cardinality(Parentless(robot)) # 1) => (multi_body = None /\ model = None)

\* C8: a description in which a joint names an unknown parent or child
\* link, or two joints name the same child, returns no tree.
C8_ReferencesRejected ==
    (Built /\ ~(KnownLinks(robot) /\ OneParentEach(robot)))
        => (multi_body = None /\ model = None)

-----------------------------------------------------------------------------
(* Poses and screws, for the statements below.                             *)

\* The node ids reached from a set of ids along the edges.
RECURSIVE ReachIds(_, _)
ReachIds(g, S) ==
    LET T == S \cup {g.edges[k][2] : k \in {x \in 1..Len(g.edges) : g.edges[x][1] \in S}}
    IN  IF T = S THEN S ELSE ReachIds(g, T)

\* The parent of a node that has an incoming edge.
ParentOf(g, l) == g.edges[CHOOSE k \in 1..Len(g.edges) : g.edges[k][2] = l][1]

\* The joint origin of a link composed with the exponential of its stored
\* motion screw scaled by its joint value.
ExpectedRelative(link) ==
    SE3Mul(link.joint_relative_pose,
           IF link.joint_screw = None THEN SE3Identity
           ELSE se3Exp(se3Scale(Unwrap(link.joint_screw), link.joint_value)))

\* The ordered product of the relative transforms from the root down to l.
RECURSIVE AncestorProduct(_, _)
AncestorProduct(mb, l) ==
    IF l = mb.root_index THEN SE3Identity
    ELSE SE3Mul(AncestorProduct(mb, ParentOf(mb.graph, l)), ExpectedRelative(mb.link_map[l]))

Propagated(mb) ==
    \A l \in ReachIds(mb.graph, {mb.root_index}) \ {mb.root_index} :
        /\ mb.link_map[l].global_pose =
              SE3Mul(mb.link_map[ParentOf(mb.graph, l)].global_pose,
                     ExpectedRelative(mb.link_map[l]))
        /\ mb.link_map[l].global_pose = AncestorProduct(mb, l)

\* The link of a Model with the given id: links holds them in ascending id.
ModelLink(m, id) == m.links[Cardinality({x \in m.link_graph.nodes : x <= id})]

ZeroPropagated(m) ==
    \A k \in 1..Len(m.link_graph.edges) :
        LET p == m.link_graph.edges[k][1]
            c == m.link_graph.edges[k][2]
        IN  c \in Range(m.bfs) =>
               ModelLink(m, c).global_zero_pose =
                   SE3Mul(ModelLink(m, p).global_zero_pose,
                          pose_to_se3(Unwrap(ModelLink(m, c).joint.urdf_joint).origin))

\* C2: after move_joint (run by parse_robot and by every later call) the
\* global pose of every link below the root is its parent's global pose
\* composed with its joint origin and the exponential of its motion screw
\* times its joint value, and so the ordered product of the relative
\* transforms of its ancestors; in a valid description that is every
\* link but the root.  The zero poses fullfill_link_map computes for a
\* valid description compose in the same way.
C2_Propagated ==
    /\ (multi_body # None /\ last.op \in {"parse_robot", "move_joint"}) =>
          /\ Propagated(Unwrap(multi_body))
          /\ IsTree(robot) =>
                ReachIds(Unwrap(multi_body).graph, {Unwrap(multi_body).root_index})
                    = AllIds(robot)
    /\ (model # None /\ IsTree(robot)) => ZeroPropagated(Unwrap(model))

\* A link two joints below the root, both joints turning and turned.
C2_Witness ==
    /\ multi_body # None
    /\ last.op = "move_joint"
    /\ IsTree(robot)
    /\ LET mb == Unwrap(multi_body)
       IN  \E l \in DOMAIN mb.link_map :
              /\ Incoming(mb.graph, l) # {}
              /\ ParentOf(mb.graph, l) # mb.root_index
              /\ mb.link_map[l].joint_screw # None
              /\ mb.link_map[l].joint_value = 1
              /\ mb.link_map[ParentOf(mb.graph, l)].joint_screw # None
              /\ mb.link_map[ParentOf(mb.graph, l)].joint_value = 1

GlobalPoses(mb) == [l \in DOMAIN mb.link_map |-> mb.link_map[l].global_pose]

\* C5 as claimed: when set_joint_value has returned, every global pose is
\* the one propagated from the current joint values.
C5_SetPropagates ==
    (multi_body # None /\ last.op = "set_joint_value" /\ last.result = "ok")
        => Propagated(Unwrap(multi_body))

\* C5 as amended: set_joint_value stores the values and leaves every global
\* pose as it was; the move_joint call that follows it makes every global
\* pose the one propagated from the current joint values.
C5_SetThenMove ==
    [][ /\ last'.op = "set_joint_value" =>
              GlobalPoses(Unwrap(multi_body')) = GlobalPoses(Unwrap(multi_body))
        /\ (last.op = "set_joint_value" /\ last'.op = "move_joint") =>
              Propagated(Unwrap(multi_body')) ]_vars

\* A turning joint whose value was set to 1 and then propagated.
C5_Witness ==
    /\ multi_body # None
    /\ last.op = "move_joint"
    /\ LET mb == Unwrap(multi_body)
       IN  \E l \in ReachIds(mb.graph, {mb.root_index}) :
              /\ mb.link_map[l].joint_screw # None
              /\ mb.link_map[l].joint_value = 1
              /\ mb.link_map[l].global_pose #
                    SE3Mul(mb.link_map[ParentOf(mb.graph, l)].global_pose,
                           mb.link_map[l].joint_relative_pose)

\* C6: a set_joint_value call whose mapping holds an unknown joint name
\* leaves every link as it was before the call.
C6_AtomicRejection ==
    [][ (last'.op = "set_joint_value" /\ last'.unknown) => multi_body' = multi_body ]_vars

HasKind(r, kind) == \E k \in 1..Len(r.joints) : r.joints[k].joint_type = kind

\* C9: a valid description with a joint of an unrecognized kind builds in
\* both paths, and the link of that joint has the zero motion screw and the
\* pose of its parent composed with the joint origin.
C9_UnrecognizedIsFixed ==
    (Built /\ IsTree(robot) /\ HasKind(robot, "Floating")) =>
        /\ last.result = "ok"
        /\ multi_body # None =>
              LET mb == Unwrap(multi_body)
              IN  \A l \in DOMAIN mb.link_map :
                     (mb.link_map[l].joint # None
                        /\ Unwrap(mb.link_map[l].joint).joint_type = "Floating") =>
                         /\ mb.link_map[l].joint_screw = None
                         /\ mb.link_map[l].global_pose =
                               SE3Mul(mb.link_map[ParentOf(mb.graph, l)].global_pose,
                                      mb.link_map[l].joint_relative_pose)

\* The motion screw the kind of a joint calls for.
ScrewOfKind(joint) ==
    CASE joint.joint_type \in {"Revolute", "Continuous"} ->
            se3New(Normalize(joint.axis), Vec3Zero)
      [] joint.joint_type = "Prismatic" -> se3New(Vec3Zero, Normalize(joint.axis))
      [] OTHER -> se3Identity

\* C10: in every build path the motion screw of a joint has the shape its
\* kind calls for: angular for revolute and continuous, linear for
\* prismatic, zero for fixed.
C10_ScrewShape ==
    /\ multi_body # None =>
          LET mb == Unwrap(multi_body)
          IN  \A l \in DOMAIN mb.link_map :
                 mb.link_map[l].joint # None =>
                    (IF mb.link_map[l].joint_screw = None THEN se3Identity
                     ELSE Unwrap(mb.link_map[l].joint_screw))
                        = ScrewOfKind(Unwrap(mb.link_map[l].joint))
    /\ model # None =>
          LET m == Unwrap(model)
          IN  \A l \in m.link_graph.nodes :
                 (l \in Range(m.bfs) /\ Incoming(m.link_graph, l) # {}) =>
                    ModelLink(m, l).local_spatial_screw
                        = ScrewOfKind(Unwrap(ModelLink(m, l).joint.urdf_joint))

\* C11: a move_joint call that follows a move_joint call (that of
\* parse_robot included) with no set_joint_value in between leaves every
\* link as the first call left it: global pose, screw and all.
C11_Idempotent ==
    [][ (last.op \in {"parse_robot", "move_joint"} /\ last'.op = "move_joint")
            => multi_body' = multi_body ]_vars

\* A branching tree after move_joint, a turning joint turned and its link
\* moved off its zero pose, on which the next move_joint call changes
\* nothing.
C11_Witness ==
    /\ multi_body # None
    /\ last = Call("move_joint", "ok", FALSE)
    /\ LET mb == Unwrap(multi_body)
       IN  /\ Len(MultiBodyGraph_children(mb, mb.root_index)) >= 2
           /\ \E l \in ReachIds(mb.graph, {mb.root_index}) \ {mb.root_index} :
                 /\ mb.link_map[l].joint_screw # None
                 /\ mb.link_map[l].joint_value = 1
                 /\ mb.link_map[l].global_pose # mb.link_map[l].joint_relative_pose
           /\ move_joint(mb) = mb

\* The identity transform, written out: no rotation, no translation.
IsIdentity(T) ==
    /\ T.R = << <<1, 0, 0>>, <<0, 1, 0>>, <<0, 0, 1>> >>
    /\ T.p = <<0, 0, 0>>

\* C12: in every state after a successful build, whatever set_joint_value
\* and move_joint calls followed it, the global pose of the root link is
\* the identity transform; so is the zero pose of the link a Model starts
\* its traversal at, when the description has a link that is no joint's
\* child.
C12_RootIdentity ==
    /\ multi_body # None =>
          IsIdentity(Unwrap(multi_body).link_map[Unwrap(multi_body).root_index].global_pose)
    /\ (model # None /\ Parentless(robot) # {}) =>
          IsIdentity(ModelLink(Unwrap(model), Unwrap(model).bfs[1]).global_zero_pose)

\* The joint of a child of the root was set to 1 and propagated: the child
\* is off the identity, the root is on it.
C12_Witness ==
    /\ multi_body # None
    /\ last.op = "move_joint"
    /\ LET mb == Unwrap(multi_body)
       IN  /\ IsIdentity(mb.link_map[mb.root_index].global_pose)
           /\ \E c \in Range(MultiBodyGraph_children(mb, mb.root_index)) :
                 /\ mb.link_map[c].joint_value = 1
                 /\ mb.link_map[c].joint_screw # None
                 /\ ~IsIdentity(mb.link_map[c].global_pose)
                 /\ mb.link_map[c].global_pose # mb.link_map[c].joint_relative_pose

\* C13: a description whose joints name known links, no child twice, and
\* which has one link that is no joint's child returns a tree, from either
\* build path, only if the traversal from the root reaches every node of
\* the graph.
C13_UnreachableRejected ==
    (KnownLinks(robot) /\ OneParentEach(robot) /\ Cardinality(Parentless(robot)) = 1) =>
        /\ multi_body # None =>
              Range(MultiBodyGraph_bfs(Unwrap(multi_body), Unwrap(multi_body).root_index))
                  = Unwrap(multi_body).graph.nodes
        /\ model # None =>
              Range(Unwrap(model).bfs) = Unwrap(model).link_graph.nodes

====
